---- MODULE Spec2Model ----
(***************************************************************************)
(* Figure/table cross-reference engine of obsidian-pandoc-reference-list:  *)
(* the scanner (scanDocument), the live-preview decoration field           *)
(* (pandocFigTblField), the navigator listing                              *)
(* (FigureNavigatorView.updateView), the click handlers of the overlays    *)
(* and of the navigator, and the completion provider (FigureTableSuggest). *)
(*                                                                         *)
(* A string is a sequence of characters, a character is a one-element      *)
(* string.  Characters outside ASCII are written by their code point:      *)
(* "U+56FE" is the figure prefix, "U+8868" the table prefix, "U+FF08" and  *)
(* "U+FF09" the full-width parentheses.  Offsets and line numbers are the  *)
(* zero-based ones of the source; At and Slice do the index arithmetic.    *)
(***************************************************************************)
EXTENDS Integers, Sequences, FiniteSets, TLC

VARIABLES
    text,         \* the document of the editor (state.doc.toString())
    selection,    \* state.selection.ranges: a sequence of [from, to]
    settings,     \* pluginInstance.settings (the fields this engine reads)
    decorations,  \* the value of pandocFigTblField: a sequence of ranges
    lastTr,       \* the transaction the field handled last: [dispatched, docChanged, selection]
    navItems,     \* the navigator's list: [rendered, items]
    scanResult,   \* what the last call of scanDocument returned: [called, defs, refIds]
    hidden,       \* history: definition overlays the cursor is inside of since they were shown
    restored,     \* history: those of `hidden` the last selection change moved the cursor out of
    dom,          \* per range of `decorations`: whether toDOM gave its span an onmousedown
    jump,         \* the last cursor jump requested by a click: [issued, by, line, lines, enabled]
    suggest,      \* FigureTableSuggest: its context, its candidates and its last commit
    scans,        \* history: the [text, cfg, result] of the navigator's scans, in order
    timer         \* the debounced updateView of the navigator: [pending, left, since, fired, edits, burst]

vars == <<text, selection, settings, decorations, lastTr, navItems, scanResult, hidden, restored,
          dom, jump, suggest, scans, timer>>

----------------------------------------------------------------------------
(* Strings *)

NULL == "null"

At(s, k) == IF k >= 0 /\ k < Len(s) THEN s[k + 1] ELSE NULL

Slice(s, a, b) == SubSeq(s, a + 1, b)

LowerCase == {"a","b","c","d","e","f","g","h","i","j","k","l","m",
              "n","o","p","q","r","s","t","u","v","w","x","y","z"}
UpperCase == {"A","B","C","D","E","F","G","H","I","J","K","L","M",
              "N","O","P","Q","R","S","T","U","V","W","X","Y","Z"}
Digits == <<"0","1","2","3","4","5","6","7","8","9">>

\* [a-zA-Z]
IsLetter(c) == c \in LowerCase \cup UpperCase
\* [a-zA-Z0-9_\-]
IsIdChar(c) == IsLetter(c) \/ c \in {"_", "-"} \/ \E d \in 1..10 : Digits[d] = c
\* \s
IsSpace(c) == c \in {" ", "\t", "\n"}
\* . (anything but a line terminator)
IsDot(c) == c # "\n" /\ c # NULL
OpenParens == {"(", "U+FF08"}
CloseParens == {")", "U+FF09"}

\* the string `lit` stands at offset k of s
IsAt(s, k, lit) == k >= 0 /\ k + Len(lit) <= Len(s) /\ Slice(s, k, k + Len(lit)) = lit

\* the end of the longest run of id characters / of whitespace that starts at k
SkipIdChars(s, k) ==
    CHOOSE j \in k..Len(s) :
        /\ \A x \in k..(j - 1) : IsIdChar(At(s, x))
        /\ ~IsIdChar(At(s, j))
SkipSpace(s, k) ==
    CHOOSE j \in k..Len(s) :
        /\ \A x \in k..(j - 1) : IsSpace(At(s, x))
        /\ ~IsSpace(At(s, j))

\* first offset j >= k holding a character of `stops`, reached over `.` only; -1 if none
LazyDotsTo(s, k, stops) ==
    LET hits == {j \in k..(Len(s) - 1) :
                    /\ At(s, j) \in stops
                    /\ \A x \in k..(j - 1) : IsDot(At(s, x)) /\ At(s, x) \notin stops}
    IN IF hits = {} THEN -1 ELSE CHOOSE j \in hits : TRUE

\* `${n}` for a natural number
RECURSIVE ToStr(_)
ToStr(n) == IF n < 10 THEN <<Digits[n + 1]>> ELSE ToStr(n \div 10) \o <<Digits[(n % 10) + 1]>>

\* String.prototype.trim on the whitespace of the alphabet
RECURSIVE TrimLeft(_)
TrimLeft(s) == IF s # <<>> /\ IsSpace(s[1]) THEN TrimLeft(Tail(s)) ELSE s
RECURSIVE TrimRight(_)
TrimRight(s) == IF s # <<>> /\ IsSpace(s[Len(s)]) THEN TrimRight(SubSeq(s, 1, Len(s) - 1)) ELSE s
Trim(s) == TrimRight(TrimLeft(s))

\* String.prototype.indexOf(c) and search(/\S/): first offset, -1 if none
IndexOfChar(s, c) ==
    IF \E k \in 0..(Len(s) - 1) : At(s, k) = c
    THEN CHOOSE k \in 0..(Len(s) - 1) : At(s, k) = c /\ \A x \in 0..(k - 1) : At(s, x) # c
    ELSE -1
SearchNonSpace(s) ==
    IF \E k \in 0..(Len(s) - 1) : ~IsSpace(At(s, k))
    THEN CHOOSE k \in 0..(Len(s) - 1) : ~IsSpace(At(s, k)) /\ \A x \in 0..(k - 1) : IsSpace(At(s, x))
    ELSE -1

----------------------------------------------------------------------------
(* The document as the line-addressable buffer the scanner reads *)

\* offsets of the line breaks of s
Breaks(s) == {k \in 0..(Len(s) - 1) : At(s, k) = "\n"}
\* doc.lines
LineCount(s) == Cardinality(Breaks(s)) + 1
\* doc.line(i).from for the 1-based line number i
LineFrom(s, i) ==
    IF i = 1 THEN 0
    ELSE 1 + CHOOSE k \in Breaks(s) : Cardinality({b \in Breaks(s) : b < k}) = i - 2
\* doc.line(i).to
LineTo(s, i) ==
    IF i = LineCount(s) THEN Len(s)
    ELSE CHOOSE k \in Breaks(s) : Cardinality({b \in Breaks(s) : b < k}) = i - 1
\* doc.line(i).text
LineText(s, i) == Slice(s, LineFrom(s, i), LineTo(s, i))
\* doc.lineAt(pos).number
LineAt(s, pos) == Cardinality({b \in Breaks(s) : b < pos}) + 1

----------------------------------------------------------------------------
(* Constants and configuration access (part_001 lines 48-56) *)

FIGURE_PREFIX_DEFAULT == <<"U+56FE">>
TABLE_PREFIX_DEFAULT == <<"U+8868">>

\* pluginInstance?.settings.figurePrefix || FIGURE_PREFIX_DEFAULT
getFigurePrefix(cfg) == IF cfg.figurePrefix # <<>> THEN cfg.figurePrefix ELSE FIGURE_PREFIX_DEFAULT
getTablePrefix(cfg) == IF cfg.tablePrefix # <<>> THEN cfg.tablePrefix ELSE TABLE_PREFIX_DEFAULT

----------------------------------------------------------------------------
(* The regular expressions of the scanner and of the decoration field *)

NoMatch == [ok |-> FALSE]

\* (fig|tbl) at offset k
KindAt(s, k) ==
    IF IsAt(s, k, <<"f", "i", "g">>) THEN "fig"
    ELSE IF IsAt(s, k, <<"t", "b", "l">>) THEN "tbl"
    ELSE NULL

\* DefBraceAt, but only a brace right behind the id closes the marker
DefBraceAt_NoAttributes(s, idEnd) == IF At(s, idEnd) = "}" THEN idEnd ELSE -1

\* offset of the closing brace of a definition marker whose id ends at idEnd:
\* `(?:\s+.*?)?\}` -- either the brace at once, or whitespace, then the first
\* brace reached over characters that are no line break; -1 if neither
DefBraceAt(s, idEnd) ==
    IF At(s, idEnd) = "}" THEN idEnd
    ELSE IF IsSpace(At(s, idEnd)) THEN LazyDotsTo(s, SkipSpace(s, idEnd), {"}"})
    ELSE -1

\* the match of defRegex at offset k, from the kind read at k + 2, the end of
\* the id that starts at k + 6 and the closing brace found after it
DefMatchOf(s, k, type, idEnd, brace) ==
    IF /\ IsAt(s, k, <<"{", "#">>)
       /\ type # NULL
       /\ At(s, k + 5) = ":"
       /\ idEnd > k + 6
       /\ brace # -1
    THEN [ok |-> TRUE, index |-> k,
          end |-> IF IsLetter(At(s, brace + 1)) THEN brace + 2 ELSE brace + 1,
          type |-> type,
          id |-> Slice(s, k + 6, idEnd),
          suffix |-> IF IsLetter(At(s, brace + 1)) THEN <<At(s, brace + 1)>> ELSE <<>>]
    ELSE NoMatch

\* /\{#(fig|tbl):([a-zA-Z0-9_\-]+)(?:\s+.*?)?\}([a-zA-Z])?/ matched at offset k
DefMatchAt(s, k) ==
    DefMatchOf(s, k, KindAt(s, k + 2), SkipIdChars(s, k + 6),
               DefBraceAt(s, SkipIdChars(s, k + 6)))

\* the match of refGlobalRegex at offset k, from the kind read at k + 1 and
\* the end of the id that starts at k + 5
BareRefMatchOf(s, k, type, idEnd) ==
    IF At(s, k) = "@" /\ type # NULL /\ At(s, k + 4) = ":" /\ idEnd > k + 5
    THEN [ok |-> TRUE, index |-> k, end |-> idEnd, type |-> type,
          id |-> Slice(s, k + 5, idEnd)]
    ELSE NoMatch

\* /@(fig|tbl):([a-zA-Z0-9_\-]+)/ matched at offset k
BareRefMatchAt(s, k) == BareRefMatchOf(s, k, KindAt(s, k + 1), SkipIdChars(s, k + 5))

\* the match of refRegex at offset k, from the offset `at` of the @ after the
\* whitespace, the end of the id and the first closing parenthesis after it
RefMatchOf(s, k, at, idEnd, close) ==
    IF /\ At(s, k) \in OpenParens
       /\ At(s, at) = "@"
       /\ KindAt(s, at + 1) # NULL
       /\ At(s, at + 4) = ":"
       /\ idEnd > at + 5
       /\ close # -1
    THEN [ok |-> TRUE, index |-> k, end |-> close + 1, type |-> KindAt(s, at + 1),
          id |-> Slice(s, at + 5, idEnd),
          m3 |-> Slice(s, idEnd, close)]
    ELSE NoMatch

\* the match of refRegex at offset k whose @ stands at offset `at`
RefMatchFrom(s, k, at) ==
    RefMatchOf(s, k, at, SkipIdChars(s, at + 5),
               LazyDotsTo(s, SkipIdChars(s, at + 5), CloseParens))

\* /[(U+FF08]\s*@(fig|tbl):([a-zA-Z0-9_\-]+)(.*?)[)U+FF09]/ matched at offset k
RefMatchAt(s, k) == RefMatchFrom(s, k, SkipSpace(s, k + 1))

\* the three patterns, by name
MatchAt(regex, s, k) ==
    CASE regex = "defRegex" -> DefMatchAt(s, k)
      [] regex = "refGlobalRegex" -> BareRefMatchAt(s, k)
      [] regex = "refRegex" -> RefMatchAt(s, k)

\* the least member of a non-empty set of offsets
Least(ks) == CHOOSE k \in ks : \A x \in ks : k <= x

\* regex.exec: the match at the leftmost of the offsets ks where regex matches
Leftmost(regex, s, ks) == IF ks = {} THEN NoMatch ELSE MatchAt(regex, s, Least(ks))

\* regex.exec(s) with lastIndex = from: the leftmost match at or after from
RegExec(regex, s, from) ==
    Leftmost(regex, s, {k \in from..(Len(s) - 1) : MatchAt(regex, s, k).ok})

\* while ((m = regex.exec(s)) !== null): m and the matches after it, in order
RECURSIVE MatchesFrom(_, _, _)
MatchesFrom(regex, s, m) ==
    IF m.ok THEN <<m>> \o MatchesFrom(regex, s, RegExec(regex, s, m.end)) ELSE <<>>

\* defRegex.exec(s) with lastIndex = from
DefExec(s, from) == RegExec("defRegex", s, from)

\* the matches of the global defRegex, in text order
DefMatches(s, from) == MatchesFrom("defRegex", s, DefExec(s, from))

BareRefExec(s, from) == RegExec("refGlobalRegex", s, from)

\* the matches of refGlobalRegex on one line, in order
BareRefMatches(s, from) == MatchesFrom("refGlobalRegex", s, BareRefExec(s, from))

RefExec(s, from) == RegExec("refRegex", s, from)

\* the matches of the global refRegex, in text order
RefMatches(s, from) == MatchesFrom("refRegex", s, RefExec(s, from))

\* group 1 of /!\[(.*?)\]/ matched at the leftmost of the offsets ks
ImgCaptionAt(line, ks) ==
    IF ks = {} THEN <<>>
    ELSE Slice(line, Least(ks) + 2, LazyDotsTo(line, Least(ks) + 2, {"]"}))

\* /!\[(.*?)\]/.exec(lineText): group 1 of the leftmost match; "" if none, as
\* the caption then stays
ImgCaption(line) ==
    ImgCaptionAt(line, {k \in 0..(Len(line) - 1) :
                           IsAt(line, k, <<"!", "[">>) /\ LazyDotsTo(line, k + 2, {"]"}) # -1})

\* the shortest group 1 that starts at p2 and ends at one of the offsets es
TblCaptionOf(line, p2, es) == IF es = {} THEN <<>> ELSE Slice(line, p2, Least(es))

\* group 1 of the table caption pattern when it starts at offset p2: (.*?)
\* up to the first offset from which \s*\{# matches
TblCaptionFrom(line, p2) ==
    TblCaptionOf(line, p2, {e \in p2..Len(line) :
                               /\ \A x \in p2..(e - 1) : IsDot(At(line, x))
                               /\ IsAt(line, SkipSpace(line, e), <<"{", "#">>)})

\* the optional colon of the table caption pattern at offset p0
SkipColon(line, p0) == IF At(line, p0) = ":" THEN p0 + 1 ELSE p0

\* /^\s*:?\s*(.*?)\s*\{#/.exec(lineText): group 1; "" if no match, as the
\* caption then stays
TblCaption(line) ==
    TblCaptionFrom(line, SkipSpace(line, SkipColon(line, SkipSpace(line, 0))))

----------------------------------------------------------------------------
(* Scanner: scanDocument (part_001 lines 140-199) *)

\* Map.prototype.set on a map kept as the sequence of its values in insertion
\* order: a key that is present keeps its place
MapHas(m, id) == \E j \in 1..Len(m) : m[j].id = id
MapIndex(m, id) == CHOOSE j \in 1..Len(m) : m[j].id = id
MapGet(m, id) == m[MapIndex(m, id)]
\* MapSet, but an id already present keeps the value it has
MapSet_KeepsFirst(m, id, v) == IF MapHas(m, id) THEN m ELSE Append(m, v)
MapSet(m, id, v) == IF MapHas(m, id) THEN [m EXCEPT ![MapIndex(m, id)] = v] ELSE Append(m, v)

SeqToSet(q) == {q[j] : j \in 1..Len(q)}

\* the PandocDef stored for the match on line i (1-based), count being the
\* counter of its kind after the increment
PandocDef(cfg, i, match, caption, count) ==
    [id |-> match.id, type |-> match.type, number |-> ToStr(count),
     suffix |-> match.suffix, caption |-> caption,
     fullLabel |-> (IF match.type = "fig" THEN getFigurePrefix(cfg) ELSE getTablePrefix(cfg))
                    \o ToStr(count) \o match.suffix,
     line |-> i - 1, usageCount |-> 0]

\* refIds.add(refMatch[2]) for every match of refGlobalRegex on the line
AddRefIds(refIds, refs) == refIds \cup {refs[j].id : j \in 1..Len(refs)}

\* ScanMatch, but a line without a marker stores a definition for the first
\* id it cites
ScanMatch_DefinesCited(lineText, cfg, i, st, match, refs) ==
    IF ~match.ok /\ refs # <<>>
    THEN [defMap |-> MapSet(st.defMap, refs[1].id,
                            PandocDef(cfg, i, [ok |-> TRUE, type |-> refs[1].type, id |-> refs[1].id,
                                               suffix |-> ""], "", st.figCount + 1)),
          refIds |-> AddRefIds(st.refIds, refs),
          figCount |-> st.figCount + 1, tblCount |-> st.tblCount]
    ELSE IF ~match.ok THEN st
    ELSE [defMap |-> MapSet(st.defMap, match.id,
                            PandocDef(cfg, i, match, ImgCaption(lineText), st.figCount + 1)),
          refIds |-> AddRefIds(st.refIds, refs),
          figCount |-> st.figCount + 1, tblCount |-> st.tblCount]

\* the loop body once defRegex and refGlobalRegex have run on the line
ScanMatch(lineText, cfg, i, st, match, refs) ==
    IF ~match.ok THEN [st EXCEPT !.refIds = AddRefIds(st.refIds, refs)]
    ELSE IF match.type = "fig"
    THEN [defMap |-> MapSet(st.defMap, match.id,
                            PandocDef(cfg, i, match, ImgCaption(lineText), st.figCount + 1)),
          refIds |-> AddRefIds(st.refIds, refs),
          figCount |-> st.figCount + 1, tblCount |-> st.tblCount]
    ELSE [defMap |-> MapSet(st.defMap, match.id,
                            PandocDef(cfg, i, match, TblCaption(lineText), st.tblCount + 1)),
          refIds |-> AddRefIds(st.refIds, refs),
          figCount |-> st.figCount, tblCount |-> st.tblCount + 1]

\* the loop body on the text of one line
ScanLineText(lineText, cfg, i, st) ==
    ScanMatch(lineText, cfg, i, st, DefExec(lineText, 0), BareRefMatches(lineText, 0))

\* one iteration of the loop over the lines: st = [defMap, refIds, figCount, tblCount]
ScanLine(s, cfg, i, st) == ScanLineText(LineText(s, i), cfg, i, st)

RECURSIVE ScanLines(_, _, _, _)
ScanLines(s, cfg, i, st) ==
    IF i > LineCount(s) THEN st ELSE ScanLines(s, cfg, i + 1, ScanLine(s, cfg, i, st))

\* CountUsage, but no citation is counted
CountUsage_CountsNothing(defMap, refIds) == defMap

\* refIds.forEach(refId => { if (defMap.has(refId)) defMap.get(refId).usageCount++ })
CountUsage(defMap, refIds) ==
    [j \in 1..Len(defMap) |->
        IF defMap[j].id \in refIds
        THEN [defMap[j] EXCEPT !.usageCount = @ + 1]
        ELSE defMap[j]]

\* return { defs: defMap, refIds } after the usage counts are updated
ScanResult(st) == [defs |-> CountUsage(st.defMap, st.refIds), refIds |-> st.refIds]

scanDocument(s, cfg) ==
    ScanResult(ScanLines(s, cfg, 1, [defMap |-> <<>>, refIds |-> {}, figCount |-> 0, tblCount |-> 0]))


----------------------------------------------------------------------------
(* Decoration field: pandocFigTblField (part_001 lines 210-296) *)

\* set once by onload (part_001 line 439), before the field is registered
pluginInstance == TRUE

\* isCursorInside, but with strict comparisons: a range that only touches an
\* end of [from, to] is outside
isCursorInside_Strict(sel, from, to) ==
    \E r \in 1..Len(sel) : sel[r].from < to /\ sel[r].to > from

\* isCursorInside: some selection range touches [from, to]
isCursorInside(sel, from, to) ==
    \E r \in 1..Len(sel) : sel[r].from <= to /\ sel[r].to >= from

\* targetLine of a widget that has none (null)
NoLine == -1

\* new LabelWidget(...) in Decoration.replace(...).range(from, to)
LabelWidget(from, to, displayText, type, isDef, targetLine, isError) ==
    [from |-> from, to |-> to, displayText |-> displayText, type |-> type,
     isDef |-> isDef, targetLine |-> targetLine, isError |-> isError]

\* DefStart, but the range of a table marker is the marker alone
DefStart_MarkerOnly(s, m) == m.index

\* start of the hidden range of the definition match m: a table takes the
\* "colon + caption" before it on its line along
DefStart(s, m) ==
    LET from == LineFrom(s, LineAt(s, m.index))
        textBefore == Slice(s, from, m.index)
        colonIndex == IndexOfChar(textBefore, ":")
    IN IF m.type = "tbl"
       THEN IF colonIndex # -1 THEN from + colonIndex
            ELSE IF Len(Trim(textBefore)) > 0 THEN from + SearchNonSpace(textBefore)
            ELSE m.index
       ELSE m.index

\* the widget pushed for the definition match m, <<>> if none is pushed
DefWidget(s, sel, cfg, defs, m) ==
    LET start == DefStart(s, m)
        def == MapGet(defs, m.id)
    IN IF isCursorInside(sel, start, m.end) THEN <<>>
       ELSE IF MapHas(defs, m.id)
       THEN <<LabelWidget(start, m.end, def.fullLabel \o <<" ">> \o def.caption,
                          m.type, TRUE, NoLine,
                          cfg.enableIntegrityCheck /\ def.usageCount = 0)>>
       ELSE <<>>

\* RefWidget, but the placeholder of a broken reference is flagged whatever
\* enableIntegrityCheck says
RefWidget_AlwaysError(s, sel, cfg, defs, m) ==
    LET def == MapGet(defs, m.id)
    IN IF isCursorInside(sel, m.index, m.end) THEN <<>>
       ELSE IF MapHas(defs, m.id)
       THEN <<LabelWidget(m.index, m.end, <<"(">> \o def.fullLabel \o m.m3 \o <<")">>,
                          m.type, FALSE, def.line, FALSE)>>
       ELSE <<LabelWidget(m.index, m.end,
                          <<"(">> \o (IF m.type = "fig" THEN getFigurePrefix(cfg)
                                      ELSE getTablePrefix(cfg))
                                  \o <<"?">> \o m.m3 \o <<")">>,
                          m.type, FALSE, NoLine, TRUE)>>

\* RefWidget, but the label of a resolved reference leaves out the suffix
\* letter of the definition
RefWidget_DropsDefSuffix(s, sel, cfg, defs, m) ==
    LET def == MapGet(defs, m.id)
    IN IF isCursorInside(sel, m.index, m.end) THEN <<>>
       ELSE IF MapHas(defs, m.id)
       THEN <<LabelWidget(m.index, m.end,
                          <<"(">> \o (IF def.type = "fig" THEN getFigurePrefix(cfg)
                                      ELSE getTablePrefix(cfg))
                                  \o def.number \o m.m3 \o <<")">>,
                          m.type, FALSE, def.line, FALSE)>>
       ELSE <<LabelWidget(m.index, m.end,
                          <<"(">> \o (IF m.type = "fig" THEN getFigurePrefix(cfg)
                                      ELSE getTablePrefix(cfg))
                                  \o <<"?">> \o m.m3 \o <<")">>,
                          m.type, FALSE, NoLine, cfg.enableIntegrityCheck)>>

\* the widget pushed for the reference match m, <<>> if the cursor is inside
RefWidget(s, sel, cfg, defs, m) ==
    LET def == MapGet(defs, m.id)
    IN IF isCursorInside(sel, m.index, m.end) THEN <<>>
       ELSE IF MapHas(defs, m.id)
       THEN <<LabelWidget(m.index, m.end, <<"(">> \o def.fullLabel \o m.m3 \o <<")">>,
                          m.type, FALSE, def.line, FALSE)>>
       ELSE <<LabelWidget(m.index, m.end,
                          <<"(">> \o (IF m.type = "fig" THEN getFigurePrefix(cfg)
                                      ELSE getTablePrefix(cfg))
                                  \o <<"?">> \o m.m3 \o <<")">>,
                          m.type, FALSE, NoLine, cfg.enableIntegrityCheck)>>

RECURSIVE Flatten(_)
Flatten(q) == IF q = <<>> THEN <<>> ELSE Head(q) \o Flatten(Tail(q))

\* widgets.sort((a, b) => a.from - b.from): stable
RECURSIVE SortByFrom(_)
SortByFrom(q) ==
    IF q = <<>> THEN <<>>
    ELSE LET rest == SortByFrom(SubSeq(q, 1, Len(q) - 1))
             w == q[Len(q)]
             n == Cardinality({j \in 1..Len(rest) : rest[j].from <= w.from})
         IN SubSeq(rest, 1, n) \o <<w>> \o SubSeq(rest, n + 1, Len(rest))

\* widgets.sort(...) over the widgets pushed for the definition matches dm,
\* then for the reference matches rm
Widgets(s, sel, cfg, defs, dm, rm) ==
    SortByFrom(Flatten([j \in 1..Len(dm) |-> DefWidget(s, sel, cfg, defs, dm[j])])
               \o Flatten([j \in 1..Len(rm) |-> RefWidget(s, sel, cfg, defs, rm[j])]))

\* the recompute: every definition widget, then every reference widget, sorted
Decorate(s, sel, cfg) ==
    Widgets(s, sel, cfg, scanDocument(s, cfg).defs, DefMatches(s, 0), RefMatches(s, 0))

\* update, but without the early return: every transaction recomputes
update_AlwaysRecompute(oldDecorations, tr, s, sel, cfg) ==
    Decorate(s, sel, cfg)

\* update, but a transaction that only moves the selection keeps the set
update_PatchesOnSelection(oldDecorations, tr, s, sel, cfg) ==
    IF ~tr.docChanged THEN oldDecorations ELSE Decorate(s, sel, cfg)

\* update(oldDecorations, transaction), transaction.state = (s, sel)
update(oldDecorations, tr, s, sel, cfg) ==
    IF ~tr.docChanged /\ ~tr.selection THEN oldDecorations
    ELSE IF ~pluginInstance THEN oldDecorations
    ELSE Decorate(s, sel, cfg)

\* LabelWidget.toDOM (part_001 lines 105-128): whether the span gets the
\* onmousedown handler, decided by the settings at the time it is built
toDOM(w, cfg) == ~w.isDef /\ w.targetLine # NoLine /\ cfg.enableClickToJump

\* the spans on display after the field went from `old` to `new`: a widget
\* that eq() (lines 97-103) finds unchanged at its range keeps its span, any
\* other range gets a span from toDOM; an edit redraws the text it replaced
Draw(oldDom, old, new, tr, cfg) ==
    [j \in 1..Len(new) |->
        IF ~tr.docChanged /\ (\E i \in 1..Len(old) : old[i] = new[j])
        THEN oldDom[CHOOSE i \in 1..Len(old) : old[i] = new[j]]
        ELSE toDOM(new[j], cfg)]

----------------------------------------------------------------------------
(* Navigator: FigureNavigatorView.updateView (part_001 lines 357-416) *)

\* NavItem, but the is-orphan class does not look at enableIntegrityCheck
NavItem_IgnoresCheck(cfg, def) ==
    [text |-> def.fullLabel \o <<" ">> \o def.caption,
     isOrphan |-> def.usageCount = 0,
     id |-> def.id,
     line |-> def.line]

\* one pandoc-nav-item: its text, its is-orphan class, and the def its click uses
NavItem(cfg, def) ==
    [text |-> def.fullLabel \o <<" ">> \o def.caption,
     isOrphan |-> cfg.enableIntegrityCheck /\ def.usageCount = 0,
     id |-> def.id,
     line |-> def.line]

\* the list rendered for the document s (empty: the "No figures" message)
updateView(s, cfg) ==
    LET defs == scanDocument(s, cfg).defs
    IN [j \in 1..Len(defs) |-> NavItem(cfg, defs[j])]


----------------------------------------------------------------------------
(* Completion provider: FigureTableSuggest (part_001 lines 301-333) *)

LowerLetters == <<"a","b","c","d","e","f","g","h","i","j","k","l","m",
                  "n","o","p","q","r","s","t","u","v","w","x","y","z">>
UpperLetters == <<"A","B","C","D","E","F","G","H","I","J","K","L","M",
                  "N","O","P","Q","R","S","T","U","V","W","X","Y","Z">>

\* String.prototype.toLowerCase
ToLowerChar(c) ==
    IF c \in UpperCase THEN LowerLetters[CHOOSE i \in 1..26 : UpperLetters[i] = c] ELSE c
toLowerCase(s) == [j \in 1..Len(s) |-> ToLowerChar(s[j])]

\* String.prototype.includes
includes(hay, needle) ==
    \E k \in 0..(Len(hay) - Len(needle)) : Slice(hay, k, k + Len(needle)) = needle

\* String.prototype.replace(c, ''): the first occurrence of c, found at
\* offset i (-1: none), is taken out
RemoveAt(s, i) == IF i = -1 THEN s ELSE Slice(s, 0, i) \o Slice(s, i + 1, Len(s))
RemoveFirst(s, c) == RemoveAt(s, IndexOfChar(s, c))

\* [a-zA-Z0-9_\-]*$ from offset p
IdCharsToEnd(s, p) == \A x \in p..(Len(s) - 1) : IsIdChar(At(s, x))

\* :?([a-zA-Z0-9_\-]*)$ from offset p
ColonIdToEnd(s, p) == IdCharsToEnd(s, p) \/ (At(s, p) = ":" /\ IdCharsToEnd(s, p + 1))

\* /(@(fig|tbl)?:?([a-zA-Z0-9_\-]*))$/ matched at offset k of sub
TriggerMatchAt(sub, k) ==
    /\ At(sub, k) = "@"
    /\ \/ ColonIdToEnd(sub, k + 1)
       \/ KindAt(sub, k + 1) # NULL /\ ColonIdToEnd(sub, k + 4)

\* sub.match(...): the offsets at which the pattern matches
TriggerOffsets(sub) == {k \in 0..(Len(sub) - 1) : TriggerMatchAt(sub, k)}

\* the trigger info for the match at the leftmost of the offsets ks, with
\* the line starting at offset lineFrom and the cursor at offset pos
TriggerInfo(s, lineFrom, pos, ks) ==
    IF ks = {} THEN [ok |-> FALSE, start |-> 0, end |-> 0, query |-> <<>>]
    ELSE [ok |-> TRUE, start |-> lineFrom + Least(ks), end |-> pos,
          query |-> Slice(s, lineFrom + Least(ks), pos)]

\* onTrigger on the line that holds the cursor, which starts at lineFrom
OnTriggerLine(s, lineFrom, pos) ==
    TriggerInfo(s, lineFrom, pos, TriggerOffsets(Slice(s, lineFrom, pos)))

\* onTrigger(cursor, editor): the cursor at offset pos of the document s
onTrigger(s, pos) == OnTriggerLine(s, LineFrom(s, LineAt(s, pos)), pos)

\* the type of a definition, spelled out
TypeChars(type) == IF type = "fig" THEN <<"f", "i", "g">> ELSE <<"t", "b", "l">>

\* SearchKey, but without the @ in front
SearchKey_NoAt(d) == toLowerCase(TypeChars(d.type) \o <<":">> \o d.id \o <<" ">> \o d.caption)

\* `@${d.type}:${d.id} ${d.caption}`.toLowerCase()
SearchKey(d) == toLowerCase(<<"@">> \o TypeChars(d.type) \o <<":">> \o d.id \o <<" ">> \o d.caption)

\* the filter of getSuggestions over the definitions defs
FilterDefs(defs, needle) ==
    LET Keep(d) == includes(SearchKey(d), needle)
    IN SelectSeq(defs, Keep)

\* getSuggestions(context) on the document s
getSuggestions(s, cfg, query) ==
    FilterDefs(scanDocument(s, cfg).defs, RemoveFirst(toLowerCase(query), "("))

\* the text selectSuggestion inserts for def
InsertText(def, cfg) ==
    IF cfg.enableAutoBrackets
    THEN <<"(", "@">> \o TypeChars(def.type) \o <<":">> \o def.id \o <<")">>
    ELSE <<"@">> \o TypeChars(def.type) \o <<":">> \o def.id

\* replaceRange, but the character behind the range goes as well
replaceRange_EatsNext(s, insertText, start, end) ==
    Slice(s, 0, start) \o insertText \o Slice(s, IF end < Len(s) THEN end + 1 ELSE end, Len(s))

\* editor.replaceRange(insertText, start, end)
replaceRange(s, insertText, start, end) ==
    Slice(s, 0, start) \o insertText \o Slice(s, end, Len(s))

----------------------------------------------------------------------------
(* Bounds and inputs *)

\* lines per scanned document
MaxLines == 3
\* how many of RenderLineKinds the rendered documents are built from
NumRenderLineKinds == 6
\* how many of EditDocs the editor session moves between
NumEditDocs == 3

\* how many of SuggestDocList the completion provider is tried on
NumSuggestDocs == 6

\* how many of QueryDocList getSuggestions is applied to
NumQueryDocs == 3

\* how many of MarkerLineKinds the documents of SpecMarker are made of
NumMarkerLineKinds == 8
\* the debounce interval of the navigator (300 ms), in ticks of 100 ms
DebounceTicks == 3
\* how many edits a session with the debounced navigator is followed for
MaxEdits == 3
\* how many of JumpDocList a session with clicks edits between
NumJumpDocs == 3
\* how many scans of the navigator a session is followed for
MaxScans == 3

Min(a, b) == IF a <= b THEN a ELSE b
\* widths of the selection ranges tried (0: a cursor)
SelWidths == {0, 3}

ScanLineKinds == <<
    \* {#fig:a}
    <<"{", "#", "f", "i", "g", ":", "a", "}">>,
    \* ![c]{#fig:b}a
    <<"!", "[", "c", "]", "{", "#", "f", "i", "g", ":", "b", "}", "a">>,
    \* : t {#tbl:c w=1}
    <<":", " ", "t", " ", "{", "#", "t", "b", "l", ":", "c", " ", "w", "=", "1", "}">>,
    \* {#tbl:a}
    <<"{", "#", "t", "b", "l", ":", "a", "}">>,
    \* @fig:a @fig:a (@tbl:c)
    <<"@", "f", "i", "g", ":", "a", " ", "@", "f", "i", "g", ":", "a", " ",
      "(", "@", "t", "b", "l", ":", "c", ")">>,
    \* (@fig:m x) @fig:b
    <<"(", "@", "f", "i", "g", ":", "m", " ", "x", ")", " ", "@", "f", "i", "g", ":", "b">>,
    \* {#fig:b} {#tbl:c}
    <<"{", "#", "f", "i", "g", ":", "b", "}", " ", "{", "#", "t", "b", "l", ":", "c", "}">>
>>

RenderLineKinds == <<
    \* ![c]{#fig:a}a
    <<"!", "[", "c", "]", "{", "#", "f", "i", "g", ":", "a", "}", "a">>,
    \* (@fig:a a)
    <<"(", "@", "f", "i", "g", ":", "a", " ", "a", ")">>,
    \* {#fig:b}
    <<"{", "#", "f", "i", "g", ":", "b", "}">>,
    \* : t {#tbl:c}
    <<":", " ", "t", " ", "{", "#", "t", "b", "l", ":", "c", "}">>,
    \* (@fig:m x)
    <<"(", "@", "f", "i", "g", ":", "m", " ", "x", ")">>,
    \* : (@fig:b) {#tbl:c}
    <<":", " ", "(", "@", "f", "i", "g", ":", "b", ")", " ",
      "{", "#", "t", "b", "l", ":", "c", "}">>,
    \* full-width open parenthesis, then " @tbl:c)"
    <<"U+FF08", " ", "@", "t", "b", "l", ":", "c", ")">>
>>

\* lines with markers of every shape: attributes, suffix letters, captions,
\* two markers on a line, an unclosed marker, one id in both kinds
MarkerLineKinds == <<
    \* {#fig:g w=1}a
    <<"{", "#", "f", "i", "g", ":", "g", " ", "w", "=", "1", "}", "a">>,
    \* (@fig:g a)
    <<"(", "@", "f", "i", "g", ":", "g", " ", "a", ")">>,
    \* : t {#tbl:c w=1}
    <<":", " ", "t", " ", "{", "#", "t", "b", "l", ":", "c", " ", "w", "=", "1", "}">>,
    \*  x {#tbl:d}b
    <<" ", "x", " ", "{", "#", "t", "b", "l", ":", "d", "}", "b">>,
    \* {#tbl:g}
    <<"{", "#", "t", "b", "l", ":", "g", "}">>,
    \* (@tbl:g)
    <<"(", "@", "t", "b", "l", ":", "g", ")">>,
    \* {#fig:e} {#tbl:f}
    <<"{", "#", "f", "i", "g", ":", "e", "}", " ", "{", "#", "t", "b", "l", ":", "f", "}">>,
    \* {#fig:h
    <<"{", "#", "f", "i", "g", ":", "h">>,
    \* ![c]{#fig:k}
    <<"!", "[", "c", "]", "{", "#", "f", "i", "g", ":", "k", "}">>
>>

EditDocs == <<
    \* {#fig:a}\nxy
    <<"{", "#", "f", "i", "g", ":", "a", "}", "\n", "x", "y">>,
    \* {#fig:a}\n(@fig:a)
    <<"{", "#", "f", "i", "g", ":", "a", "}", "\n", "(", "@", "f", "i", "g", ":", "a", ")">>,
    \* (@fig:m) x
    <<"(", "@", "f", "i", "g", ":", "m", ")", " ", "x">>,
    \* : t {#tbl:c}\n
    <<":", " ", "t", " ", "{", "#", "t", "b", "l", ":", "c", "}", "\n">>
>>

\* documents in which a citation is being typed, the cursor anywhere
SuggestDocList == <<
    \* {#fig:a}\n(@fi
    <<"{", "#", "f", "i", "g", ":", "a", "}", "\n", "(", "@", "f", "i">>,
    \* {#tbl:c}\n[@t
    <<"{", "#", "t", "b", "l", ":", "c", "}", "\n", "[", "@", "t">>,
    \* ![Ab]{#fig:ab}\nx @fig:a
    <<"!", "[", "A", "b", "]", "{", "#", "f", "i", "g", ":", "a", "b", "}", "\n", "x", " ", "@", "f", "i", "g", ":", "a">>,
    \* {#fig:a}\nb@
    <<"{", "#", "f", "i", "g", ":", "a", "}", "\n", "b", "@">>,
    \* {#tbl:c}\nU+FF08 @tbl:
    <<"{", "#", "t", "b", "l", ":", "c", "}", "\n", "U+FF08", "@", "t", "b", "l", ":">>,
    \* {#fig:ab}\n@a
    <<"{", "#", "f", "i", "g", ":", "a", "b", "}", "\n", "@", "a">>,
    \* @f\n{#fig:a}
    <<"@", "f", "\n", "{", "#", "f", "i", "g", ":", "a", "}">>
>>

\* documents whose definitions the candidates are drawn from
QueryDocList == <<
    \* ![Red Fruit]{#fig:apple}\n: Ap {#tbl:b}
    <<"!", "[", "R", "e", "d", " ", "F", "r", "u", "i", "t", "]", "{", "#", "f", "i", "g", ":", "a", "p", "p", "l", "e", "}", "\n", ":", " ", "A", "p", " ", "{", "#", "t", "b", "l", ":", "b", "}">>,
    \* {#fig:a}\n![x]{#tbl:App}
    <<"{", "#", "f", "i", "g", ":", "a", "}", "\n", "!", "[", "x", "]", "{", "#", "t", "b", "l", ":", "A", "p", "p", "}">>,
    \* {#tbl:xyz}\n{#fig:a(p}
    <<"{", "#", "t", "b", "l", ":", "x", "y", "z", "}", "\n", "{", "#", "f", "i", "g", ":", "a", "(", "p", "}">>,
    \* ![(app]{#fig:c}
    <<"!", "[", "(", "a", "p", "p", "]", "{", "#", "f", "i", "g", ":", "c", "}">>
>>

\* the queries handed to getSuggestions: a stem behind a prefix
QueryPrefixes == {<<>>, <<"(">>, <<"U+FF08">>, <<"@">>, <<"@", "f", "i", "g", ":">>, <<"f", "i", "g", ":">>}
QueryStems == {<<>>, <<"a", "p", "p">>, <<"A", "P", "P">>, <<"x", "y", "z">>, <<"a", "(", "p">>,
               <<"r", "e", "d">>}
Queries == {p \o q : p \in QueryPrefixes, q \in QueryStems}

\* documents of exactly n lines, each line one of `kinds`
RECURSIVE DocsOfLines(_, _)
DocsOfLines(kinds, n) ==
    IF n = 1 THEN kinds
    ELSE {d \o <<"\n">> \o l : d \in DocsOfLines(kinds, n - 1), l \in kinds}

ScanDocs == UNION {DocsOfLines(SeqToSet(ScanLineKinds), n) : n \in 1..MaxLines}

RenderLines == SeqToSet(SubSeq(RenderLineKinds, 1, Min(NumRenderLineKinds, Len(RenderLineKinds))))
RenderDocs == DocsOfLines(RenderLines, 1) \cup DocsOfLines(RenderLines, 2)

MarkerLines == SeqToSet(SubSeq(MarkerLineKinds, 1, Min(NumMarkerLineKinds, Len(MarkerLineKinds))))
MarkerDocs == DocsOfLines(MarkerLines, 1) \cup DocsOfLines(MarkerLines, 2)

SessionDocs == SeqToSet(SubSeq(EditDocs, 1, Min(NumEditDocs, Len(EditDocs))))

SuggestDocs == SeqToSet(SubSeq(SuggestDocList, 1, Min(NumSuggestDocs, Len(SuggestDocList))))

QueryDocs == SeqToSet(SubSeq(QueryDocList, 1, Min(NumQueryDocs, Len(QueryDocList))))

\* documents with a citation to click on, of different line counts
JumpDocList == <<
    \* (@fig:a)\n\n{#fig:a}
    <<"(", "@", "f", "i", "g", ":", "a", ")", "\n", "\n", "{", "#", "f", "i", "g", ":", "a", "}">>,
    \* (@fig:a)
    <<"(", "@", "f", "i", "g", ":", "a", ")">>,
    \* {#fig:a}\n(@fig:a)
    <<"{", "#", "f", "i", "g", ":", "a", "}", "\n", "(", "@", "f", "i", "g", ":", "a", ")">>,
    \* (@fig:m)\n{#fig:a}
    <<"(", "@", "f", "i", "g", ":", "m", ")", "\n", "{", "#", "f", "i", "g", ":", "a", "}">>
>>

JumpDocs == SeqToSet(SubSeq(JumpDocList, 1, Min(NumJumpDocs, Len(JumpDocList))))

\* where a click or a key puts the cursor in s
JumpCursors(s) == {<<[from |-> a, to |-> a]>> : a \in {0, Len(s)}}

\* the notes the navigator is switched between
RescanDocs == {<<"{", "#", "f", "i", "g", ":", "a", "}">>,
               <<"{", "#", "f", "i", "g", ":", "b", "}", "\n",
                 "{", "#", "f", "i", "g", ":", "a", "}", " ", "@", "f", "i", "g", ":", "b">>}

\* one selection range of a width of SelWidths, anywhere in s
Sels(s) == {<<[from |-> p[1], to |-> p[1] + p[2]]>> :
               p \in {q \in (0..Len(s)) \X SelWidths : q[1] + q[2] <= Len(s)}}
\* a cursor at the start, in the middle or at the end of s
MarkerCursors(s) == {<<[from |-> a, to |-> a]>> : a \in {0, Len(s) \div 2, Len(s)}}
\* a cursor anywhere in s
Cursors(s) == {<<[from |-> a, to |-> a]>> : a \in 0..Len(s)}

\* DEFAULT_SETTINGS (part_000 lines 85-108), the fields this engine reads
DEFAULT_SETTINGS ==
    [figurePrefix |-> <<"U+56FE">>, tablePrefix |-> <<"U+8868">>,
     enableClickToJump |-> TRUE, enableAutoBrackets |-> TRUE, enableIntegrityCheck |-> TRUE]

\* loadSettings: the defaults overridden by whatever was saved
LoadedSettings ==
    {[DEFAULT_SETTINGS EXCEPT !.enableIntegrityCheck = c, !.figurePrefix = p] :
        c \in BOOLEAN, p \in {<<"U+56FE">>, <<>>, <<"F">>}}
CheckSettings == {[DEFAULT_SETTINGS EXCEPT !.enableIntegrityCheck = c] : c \in BOOLEAN}

\* both values of "Auto-add Brackets"
BracketSettings == {[DEFAULT_SETTINGS EXCEPT !.enableAutoBrackets = c] : c \in BOOLEAN}

----------------------------------------------------------------------------
(* The editor session *)

\* no click has asked for a jump yet
NoJump ==
    [issued |-> FALSE, by |-> "none", line |-> 0, lines |-> 0, enabled |-> FALSE,
     outcome |-> "none"]

\* no editor-change has reached the navigator yet
NoTimer == [pending |-> FALSE, left |-> 0, since |-> 0, fired |-> 0, edits |-> 0, burst |-> 0]

\* the provider is idle: no context, nothing asked, nothing committed
NoSuggest ==
    [open |-> FALSE, start |-> 0, end |-> 0, query |-> <<>>,
     asked |-> FALSE, items |-> <<>>,
     committed |-> FALSE, useBrackets |-> FALSE, insertText |-> <<>>, before |-> <<>>,
     at |-> 0]

\* EditorState.create: the cursor at 0, the field's create() value Decoration.none
InitWith(docs, cfgs) ==
    /\ text \in docs
    /\ settings \in cfgs
    /\ selection = <<[from |-> 0, to |-> 0]>>
    /\ decorations = <<>>
    /\ lastTr = [dispatched |-> FALSE, docChanged |-> FALSE, selection |-> FALSE]
    /\ navItems = [rendered |-> FALSE, items |-> <<>>]
    /\ scanResult = [called |-> FALSE, defs |-> <<>>, refIds |-> {}]
    /\ hidden = {}
    /\ restored = {}
    /\ dom = <<>>
    /\ jump = NoJump
    /\ suggest = NoSuggest
    /\ scans = <<>>
    /\ timer = NoTimer

\* the definition overlays on display, each with the Index of the document
Shown == {[w |-> decorations[j], index |-> scanDocument(text, settings)] :
             j \in {x \in 1..Len(decorations) : decorations[x].isDef}}

Tr(docChanged, sel) == [dispatched |-> TRUE, docChanged |-> docChanged, selection |-> sel]
Called(r) == [called |-> TRUE, defs |-> r.defs, refIds |-> r.refIds]

\* view.dispatch(tr): the new state (s, sel), then the field's update
Dispatch(tr, s, sel) ==
    /\ text' = s
    /\ selection' = sel
    /\ lastTr' = tr
    /\ decorations' = update(decorations, tr, s, sel, settings)
    /\ dom' = Draw(dom, decorations, update(decorations, tr, s, sel, settings), tr, settings)
    /\ scanResult' = IF tr.docChanged \/ tr.selection THEN Called(scanDocument(s, settings))
                     ELSE scanResult
    /\ IF ~tr.docChanged /\ tr.selection
       THEN /\ hidden' = {h \in hidden \cup Shown : isCursorInside(sel, h.w.from, h.w.to)}
            /\ restored' = {h \in hidden : ~isCursorInside(sel, h.w.from, h.w.to)}
       ELSE hidden' = {} /\ restored' = {}

\* an edit: the document becomes s, the cursor lands at its start or its end
DocChange(s, at) ==
    /\ s # text
    /\ Dispatch(Tr(TRUE, TRUE), s, <<[from |-> at, to |-> at]>>)
    /\ UNCHANGED <<settings, navItems, jump, suggest, scans, timer>>

\* a click or a key that moves the selection
SelectionSet(sel) ==
    /\ Dispatch(Tr(FALSE, TRUE), text, sel)
    /\ UNCHANGED <<settings, navItems, jump, suggest, scans, timer>>

\* refreshLivePreview (part_001 lines 610-618): cm.dispatch({ effects: [] })
refreshLivePreview ==
    /\ Dispatch(Tr(FALSE, FALSE), text, selection)
    /\ UNCHANGED <<settings, navItems, jump, suggest, scans, timer>>

\* the "Enable Integrity Check" toggle (part_000 lines 374-377): the setting,
\* then refreshLivePreview
ToggleIntegrityCheck ==
    /\ settings' = [settings EXCEPT !.enableIntegrityCheck = ~@]
    /\ text' = text
    /\ selection' = selection
    /\ lastTr' = Tr(FALSE, FALSE)
    /\ decorations' = update(decorations, Tr(FALSE, FALSE), text, selection, settings')
    /\ hidden' = {}
    /\ restored' = {}
    /\ UNCHANGED <<navItems, scanResult, dom, jump, suggest, scans, timer>>

\* FigureNavigatorView.updateView on the open document
UpdateView ==
    /\ navItems' = [rendered |-> TRUE, items |-> updateView(text, settings)]
    /\ scanResult' = Called(scanDocument(text, settings))
    /\ UNCHANGED <<text, selection, settings, decorations, lastTr, hidden, restored,
                   dom, jump, suggest, scans, timer>>

Init == InitWith(SessionDocs, CheckSettings)

Next ==
    \/ \E s \in SessionDocs : \E at \in {0, Len(s)} : DocChange(s, at)
    \/ \E sel \in Cursors(text) : SelectionSet(sel)
    \/ refreshLivePreview
    \/ ToggleIntegrityCheck

Spec == Init /\ [][Next]_vars

----------------------------------------------------------------------------
(* scanDocument applied to every document of ScanDocs *)

InitScan == InitWith(ScanDocs, LoadedSettings)

NextScan == UpdateView

SpecScan == InitScan /\ [][NextScan]_vars

----------------------------------------------------------------------------
(* One recompute of the field, and one of the navigator, on every document *)
(* of RenderDocs under every selection of Sels                              *)

InitRender == InitWith(RenderDocs, CheckSettings)

FirstSelection(sel) ==
    /\ ~lastTr.dispatched
    /\ SelectionSet(sel)

NextRender ==
    \/ \E sel \in Sels(text) : FirstSelection(sel)
    \/ UpdateView

SpecRender == InitRender /\ [][NextRender]_vars


----------------------------------------------------------------------------
(* Typing a citation: the completion provider in the editor session *)

\* the provider after the host ran onTrigger, and getSuggestions on a match
Triggered(prev, info, items) ==
    [prev EXCEPT !.open = info.ok, !.start = info.start, !.end = info.end,
                 !.query = info.query, !.asked = info.ok,
                 !.items = IF info.ok THEN items ELSE <<>>]

\* the cursor moves to offset pos (typing included); the host asks onTrigger
CursorActivity(pos) ==
    /\ Dispatch(Tr(FALSE, TRUE), text, <<[from |-> pos, to |-> pos]>>)
    /\ suggest' = Triggered(suggest, onTrigger(text, pos),
                            getSuggestions(text, settings, onTrigger(text, pos).query))
    /\ UNCHANGED <<settings, navItems, jump, scans, timer>>

\* selectSuggestion(def) for the candidate def of the open context: the
\* replacement is an edit, the cursor ends up behind the inserted text
Commit(def) ==
    /\ Dispatch(Tr(TRUE, FALSE),
                replaceRange(text, InsertText(def, settings), suggest.start, suggest.end),
                <<[from |-> suggest.start + Len(InsertText(def, settings)),
                   to |-> suggest.start + Len(InsertText(def, settings))]>>)
    /\ suggest' = [suggest EXCEPT !.open = FALSE, !.committed = TRUE,
                                  !.at = suggest.start,
                                  !.useBrackets = settings.enableAutoBrackets,
                                  !.insertText = InsertText(def, settings),
                                  !.before = Slice(text, LineFrom(text, LineAt(text, suggest.start)),
                                                   suggest.start)]
    /\ UNCHANGED <<settings, navItems, jump, scans, timer>>

\* the user picks one of the candidates on offer (the session is followed
\* up to its first commit and the cursor moves after it)
SelectSuggestion ==
    /\ suggest.open
    /\ ~suggest.committed
    /\ \E j \in 1..Len(suggest.items) : Commit(suggest.items[j])

\* the "Auto-add Brackets" toggle (part_000 lines 366-369): the setting only
ToggleAutoBrackets ==
    /\ settings' = [settings EXCEPT !.enableAutoBrackets = ~@]
    /\ UNCHANGED <<text, selection, decorations, lastTr, navItems, scanResult, hidden, restored,
                   dom, jump, suggest, scans, timer>>

\* where the cursor is put: anywhere while a citation is being typed, at the
\* start or the end of the document once one has been committed
SuggestCursors(s, committed) == IF committed THEN {0, Len(s)} ELSE 0..Len(s)

InitSuggest == InitWith(SuggestDocs, BracketSettings)

NextSuggest ==
    \/ \E pos \in SuggestCursors(text, suggest.committed) : CursorActivity(pos)
    \/ SelectSuggestion
    \/ ToggleAutoBrackets

SpecSuggest == InitSuggest /\ [][NextSuggest]_vars

----------------------------------------------------------------------------
(* getSuggestions applied to every document of QueryDocs and query of Queries *)

\* the host hands getSuggestions a context whose query is q
GetSuggestions(q) ==
    /\ suggest' = [suggest EXCEPT !.asked = TRUE, !.query = q,
                                  !.items = getSuggestions(text, settings, q)]
    /\ UNCHANGED <<text, selection, settings, decorations, lastTr, navItems, scanResult,
                   hidden, restored, dom, jump, scans, timer>>

InitQuery == InitWith(QueryDocs, {DEFAULT_SETTINGS})

NextQuery == \E q \in Queries : GetSuggestions(q)

SpecQuery == InitQuery /\ [][NextQuery]_vars

----------------------------------------------------------------------------
(* One recompute of the field, and one of the navigator, on every document *)
(* of MarkerDocs                                                            *)

InitMarker == InitWith(MarkerDocs, CheckSettings)

NextMarker ==
    \/ \E sel \in MarkerCursors(text) : FirstSelection(sel)
    \/ UpdateView

SpecMarker == InitMarker /\ [][NextMarker]_vars

----------------------------------------------------------------------------
(* Clicks: on a reference overlay and on an entry of the navigator *)

\* a click asked for the 0-based line of a document of `lines` lines
Jump(by, line, lines, cfg, outcome) ==
    [issued |-> TRUE, by |-> by, line |-> line, lines |-> lines,
     enabled |-> cfg.enableClickToJump, outcome |-> outcome]

\* the "Enable Click-to-Jump" toggle (part_000 line 364): the setting only
ToggleClickToJump ==
    /\ settings' = [settings EXCEPT !.enableClickToJump = ~@]
    /\ UNCHANGED <<text, selection, decorations, lastTr, navItems, scanResult, hidden, restored,
                   dom, jump, suggest, scans, timer>>

\* mousedown on the span of overlay j (part_001 lines 121-125); spans without
\* the handler leave the click to the editor.  doc.line(n) throws outside
\* 1..doc.lines
ClickOverlay(j) ==
    /\ j \in 1..Len(dom)
    /\ dom[j]
    /\ IF decorations[j].targetLine + 1 \in 1..LineCount(text)
       THEN /\ Dispatch(Tr(FALSE, TRUE), text,
                        <<[from |-> LineFrom(text, decorations[j].targetLine + 1),
                           to |-> LineFrom(text, decorations[j].targetLine + 1)]>>)
            /\ jump' = Jump("overlay", decorations[j].targetLine, LineCount(text), settings, "moved")
       ELSE /\ jump' = Jump("overlay", decorations[j].targetLine, LineCount(text), settings, "failed")
            /\ UNCHANGED <<text, selection, decorations, lastTr, scanResult, hidden, restored, dom>>
    /\ UNCHANGED <<settings, navItems, suggest, scans, timer>>

\* click on entry j of the navigator (part_001 lines 402-414):
\* editor.setCursor(def.line, 0) with the line the listing was built with.
\* What the host's editor does with a line the document no longer has is not
\* in this repository: it either clamps (hostClamps) or fails
ClickNavItem(j, hostClamps) ==
    /\ navItems.rendered
    /\ j \in 1..Len(navItems.items)
    /\ IF navItems.items[j].line < LineCount(text)
       THEN /\ Dispatch(Tr(FALSE, TRUE), text,
                        <<[from |-> LineFrom(text, navItems.items[j].line + 1),
                           to |-> LineFrom(text, navItems.items[j].line + 1)]>>)
            /\ jump' = Jump("navigator", navItems.items[j].line, LineCount(text), settings, "moved")
       ELSE IF hostClamps
       THEN /\ Dispatch(Tr(FALSE, TRUE), text, <<[from |-> Len(text), to |-> Len(text)]>>)
            /\ jump' = Jump("navigator", navItems.items[j].line, LineCount(text), settings, "clamped")
       ELSE /\ jump' = Jump("navigator", navItems.items[j].line, LineCount(text), settings, "failed")
            /\ UNCHANGED <<text, selection, decorations, lastTr, scanResult, hidden, restored, dom>>
    /\ UNCHANGED <<settings, navItems, suggest, scans, timer>>

InitJump == InitWith(JumpDocs, {DEFAULT_SETTINGS})

NextJump ==
    \/ \E s \in JumpDocs : DocChange(s, 0)
    \/ \E sel \in JumpCursors(text) : SelectionSet(sel)
    \/ ToggleClickToJump
    \/ UpdateView
    \/ \E j \in 1..Len(dom) : ClickOverlay(j)
    \/ \E j \in 1..Len(navItems.items) : \E hostClamps \in BOOLEAN : ClickNavItem(j, hostClamps)

SpecJump == InitJump /\ [][NextJump]_vars

----------------------------------------------------------------------------
(* The navigator behind its debounce: debounce(() => this.updateView(), 300, true) *)

\* EditorChange, but a call while the timer runs leaves the timer as it is
EditorChange_NoReset(s) ==
    /\ timer.edits < MaxEdits
    /\ s # text
    /\ Dispatch(Tr(TRUE, TRUE), s, <<[from |-> 0, to |-> 0]>>)
    /\ timer' = [pending |-> TRUE,
                 left |-> IF timer.pending THEN timer.left ELSE DebounceTicks,
                 since |-> 0, fired |-> 0, edits |-> timer.edits + 1,
                 burst |-> IF timer.pending THEN timer.burst + 1 ELSE 1]
    /\ UNCHANGED <<settings, navItems, jump, suggest, scans>>

\* an edit, and the 'editor-change' event it raises: the debounced function
\* is called, which (resetTimer = true) starts its timer anew
EditorChange(s) ==
    /\ timer.edits < MaxEdits
    /\ s # text
    /\ Dispatch(Tr(TRUE, TRUE), s, <<[from |-> 0, to |-> 0]>>)
    /\ timer' = [pending |-> TRUE, left |-> DebounceTicks,
                 since |-> 0, fired |-> 0, edits |-> timer.edits + 1,
                 burst |-> IF timer.pending THEN timer.burst + 1 ELSE 1]
    /\ UNCHANGED <<settings, navItems, jump, suggest, scans>>

\* 100 ms pass while the timer runs
Tick ==
    /\ timer.pending
    /\ timer.left > 0
    /\ timer' = [timer EXCEPT !.left = @ - 1, !.since = @ + 1]
    /\ UNCHANGED <<text, selection, settings, decorations, lastTr, navItems, scanResult,
                   hidden, restored, dom, jump, suggest, scans>>

\* the timer runs out
TimerRunsOut ==
    /\ timer.pending
    /\ timer.left = 0
    /\ timer' = [timer EXCEPT !.pending = FALSE, !.fired = @ + 1]

\* ... and the debounced function calls updateView
DebouncedUpdateView ==
    /\ TimerRunsOut
    /\ navItems' = [rendered |-> TRUE, items |-> updateView(text, settings)]
    /\ scanResult' = Called(scanDocument(text, settings))
    /\ UNCHANGED <<text, selection, settings, decorations, lastTr, hidden, restored,
                   dom, jump, suggest, scans>>

InitDebounce == InitWith(JumpDocs, {DEFAULT_SETTINGS})

NextDebounce ==
    \/ \E s \in JumpDocs : EditorChange(s)
    \/ Tick
    \/ DebouncedUpdateView

\* time passes while the timer runs, and a timer that ran out calls its
\* function (the only step of NextDebounce that is a TimerRunsOut step)
SpecDebounce ==
    InitDebounce /\ [][NextDebounce]_vars /\ WF_timer(Tick) /\ WF_timer(TimerRunsOut)

----------------------------------------------------------------------------
(* The navigator following the active note: one scan after another *)

\* a scan of the navigator, entered in the history
Scanned(s, cfg, result) == [text |-> s, cfg |-> cfg, result |-> result]

\* ActiveLeafChange, but the figure counter of the scan starts from what an
\* earlier scan left behind
ActiveLeafChange_KeepsCounter(s) ==
    /\ Len(scans) < MaxScans
    /\ text' = s
    /\ selection' = <<[from |-> 0, to |-> 0]>>
    /\ decorations' = <<>>
    /\ dom' = <<>>
    /\ lastTr' = [dispatched |-> FALSE, docChanged |-> FALSE, selection |-> FALSE]
    /\ hidden' = {}
    /\ restored' = {}
    /\ navItems' = [rendered |-> TRUE, items |-> updateView(s, settings)]
    /\ scanResult' = Called(scanDocument(s, settings))
    /\ scans' = Append(scans, Scanned(s, settings,
                   ScanResult(ScanLines(s, settings, 1,
                       [defMap |-> <<>>, refIds |-> {},
                        figCount |-> IF scanResult.called THEN 1 ELSE 0, tblCount |-> 0]))))
    /\ UNCHANGED <<settings, jump, suggest, timer>>

\* workspace 'active-leaf-change' / 'layout-change' (part_001 lines 352, 354):
\* the note with text s is (again) the active one, in a fresh editor state,
\* and the navigator runs updateView
ActiveLeafChange(s) ==
    /\ Len(scans) < MaxScans
    /\ text' = s
    /\ selection' = <<[from |-> 0, to |-> 0]>>
    /\ decorations' = <<>>
    /\ dom' = <<>>
    /\ lastTr' = [dispatched |-> FALSE, docChanged |-> FALSE, selection |-> FALSE]
    /\ hidden' = {}
    /\ restored' = {}
    /\ navItems' = [rendered |-> TRUE, items |-> updateView(s, settings)]
    /\ scanResult' = Called(scanDocument(s, settings))
    /\ scans' = Append(scans, Scanned(s, settings, scanDocument(s, settings)))
    /\ UNCHANGED <<settings, jump, suggest, timer>>

\* the "Figure Prefix" text field (part_000 line 284): the setting only
SetFigurePrefix(p) ==
    /\ p # settings.figurePrefix
    /\ settings' = [settings EXCEPT !.figurePrefix = p]
    /\ UNCHANGED <<text, selection, decorations, lastTr, navItems, scanResult, hidden, restored,
                   dom, jump, suggest, scans, timer>>

InitRescan == InitWith(RescanDocs, {DEFAULT_SETTINGS})

NextRescan ==
    \/ \E s \in RescanDocs : ActiveLeafChange(s)
    \/ \E p \in {<<"U+56FE">>, <<"F">>} : SetFigurePrefix(p)

SpecRescan == InitRescan /\ [][NextRescan]_vars

----------------------------------------------------------------------------
(* Properties of the scanner, under SpecScan *)

\* the 1-based number of the first line of s that defines id
FirstDefLine(s, id) ==
    LET ls == {i \in 1..LineCount(s) :
                  DefExec(LineText(s, i), 0).ok /\ DefExec(LineText(s, i), 0).id = id}
    IN CHOOSE i \in ls : \A x \in ls : i <= x

\* the value of the decimal string `number`
NumOf(number, max) == CHOOSE n \in 0..max : ToStr(n) = number

\* how many matches of the bare citation pattern in s carry id
Occurrences(s, id) ==
    LET ms == BareRefMatches(s, 0)
    IN Cardinality({j \in 1..Len(ms) : ms[j].id = id})

\* C1: the definitions of one kind, taken in the order in which their ids
\* first appear in the document, carry sequence numbers that start at 1 and
\* strictly increase -- for every document, ids defined twice included.
C1_SequenceNumbersIncrease ==
    scanResult.called =>
        \A kind \in {"fig", "tbl"} :
            LET ds == {d \in SeqToSet(scanResult.defs) : d.type = kind}
                n(d) == NumOf(d.number, Len(text))
                first(d) == FirstDefLine(text, d.id)
            IN /\ \A d \in ds : (\A e \in ds : first(d) <= first(e)) => n(d) = 1
               /\ \A d, e \in ds : first(d) < first(e) => n(d) < n(e)

\* C2: the usageCount of every definition of the Index is the number of
\* textual occurrences of a bare citation @fig:<id> / @tbl:<id> of its id.
C2_UsageCountsOccurrences ==
    scanResult.called =>
        \A d \in SeqToSet(scanResult.defs) : d.usageCount = Occurrences(text, d.id)

----------------------------------------------------------------------------
(* Properties of one recompute, under SpecRender *)

\* the Index of the document on display
Index == scanDocument(text, settings).defs

Overlays == SeqToSet(decorations)

\* every span the recompute would emit were no selection near it
Candidates == SeqToSet(Decorate(text, <<>>, settings))

\* C3: the overlay set a recompute returns is sorted ascending by start
\* offset and no two of its spans overlap (a.end <= b.start for consecutive
\* spans a, b).
C3_SortedNonOverlapping ==
    lastTr.dispatched =>
        \A j \in 1..(Len(decorations) - 1) :
            /\ decorations[j].from <= decorations[j + 1].from
            /\ decorations[j].to <= decorations[j + 1].from

\* C4: for the same document and the same enableIntegrityCheck, the isError
\* flag of a definition overlay and the is-orphan mark of the navigator entry
\* of that definition are equal, and both are
\* (enableIntegrityCheck AND usageCount = 0); so is every navigator entry.
C4_OrphanFlagsAgree ==
    (lastTr.dispatched /\ navItems.rendered) =>
        LET dm == DefMatches(text, 0)
            items == navItems.items
            usage(id) == MapGet(scanResult.defs, id).usageCount
        IN /\ \A j \in 1..Len(items) :
                items[j].isOrphan = (settings.enableIntegrityCheck /\ usage(items[j].id) = 0)
           /\ \A k \in 1..Len(dm) : \A o \in Overlays :
                (o.isDef /\ o.to = dm[k].end) =>
                    /\ Cardinality({j \in 1..Len(items) : items[j].id = dm[k].id}) = 1
                    /\ \A j \in 1..Len(items) :
                          items[j].id = dm[k].id =>
                              /\ o.isError = items[j].isOrphan
                              /\ o.isError = (settings.enableIntegrityCheck /\ usage(dm[k].id) = 0)

\* a definition overlay flagged as orphan stands next to the navigator's list
C4_Witness ==
    /\ lastTr.dispatched
    /\ navItems.rendered
    /\ \E o \in Overlays : o.isDef /\ o.isError
    /\ \E j \in 1..Len(navItems.items) : navItems.items[j].isOrphan

\* C5 as stated: a candidate span that a selection range [from, to)
\* intersects is excluded, and one that every range lies entirely at or after
\* the end of, or entirely before the start of, is included.
C5_HalfOpenSuppression ==
    lastTr.dispatched =>
        \A c \in Candidates :
            /\ (\E r \in 1..Len(selection) :
                    selection[r].from < c.to /\ selection[r].to > c.from) => c \notin Overlays
            /\ (\A r \in 1..Len(selection) :
                    selection[r].from >= c.to \/ selection[r].to < c.from) => c \in Overlays

\* C5, amended: a candidate span is excluded exactly if some selection range
\* touches it, both bounds inclusive (from <= span end and to >= span start);
\* nothing else is excluded and nothing else is shown.
C5_TouchSuppression ==
    lastTr.dispatched =>
        /\ Overlays \subseteq Candidates
        /\ \A c \in Candidates :
              c \in Overlays <=>
                  ~\E r \in 1..Len(selection) :
                      selection[r].from <= c.to /\ selection[r].to >= c.from

\* a cursor exactly at the end offset of a span has suppressed it, and a span
\* the selection does not touch is shown
C5_Witness ==
    /\ lastTr.dispatched
    /\ \E c \in Candidates : c \notin Overlays /\ selection[1].from = c.to
    /\ \E c \in Candidates : c \in Overlays

\* C8: a parenthesized citation whose id resolves and which no selection
\* touches is shown as "(" + label + trimmed manual suffix + ")" and jumps to
\* the sourceLine of the definition.
C8_ReferenceTextTrimmed ==
    lastTr.dispatched =>
        LET rm == RefMatches(text, 0)
        IN \A k \in 1..Len(rm) :
              (MapHas(Index, rm[k].id) /\ ~isCursorInside(selection, rm[k].index, rm[k].end)) =>
                  \E o \in Overlays :
                      /\ ~o.isDef /\ o.from = rm[k].index /\ o.to = rm[k].end
                      /\ o.displayText = <<"(">> \o MapGet(Index, rm[k].id).fullLabel
                                                 \o Trim(rm[k].m3) \o <<")">>
                      /\ o.targetLine = MapGet(Index, rm[k].id).line

C10_DefinitionTextNoCaption ==
    lastTr.dispatched =>
        LET dm == DefMatches(text, 0)
        IN \A k \in 1..Len(dm) : \A o \in Overlays :
              (o.isDef /\ o.to = dm[k].end /\ MapHas(Index, dm[k].id)) =>
                  LET def == MapGet(Index, dm[k].id)
                  IN o.displayText = IF def.caption # <<>>
                                     THEN def.fullLabel \o <<" ">> \o def.caption
                                     ELSE def.fullLabel

----------------------------------------------------------------------------
(* Properties of the editor session, under Spec *)

\* C6: a definition overlay that was shown is removed by the selection
\* change that puts the cursor inside its range, and the selection change
\* that moves the cursor out again restores it with the same span, display
\* text and error flag; the Index of the document is the same throughout.
C6_SuppressionNotSticky ==
    /\ \A h \in hidden : h.w \notin Overlays
    /\ \A h \in restored : h.w \in Overlays
    /\ \A h \in hidden \cup restored : h.index = scanDocument(text, settings)

\* C7: a transaction that changes neither the document nor the selection
\* hands back the overlay set it was given; one that changes either yields
\* the recompute from a fresh scan of the current document.
C7_Stability ==
    [][/\ (lastTr'.dispatched /\ ~lastTr'.docChanged /\ ~lastTr'.selection)
              => decorations' = decorations
       /\ (lastTr'.docChanged \/ lastTr'.selection)
              => /\ decorations' = Decorate(text', selection', settings')
                 /\ scanResult' = Called(scanDocument(text', settings'))]_vars

\* after a transaction that changed nothing the field still holds an overlay
\* set that a recompute would not give
C7_Witness ==
    /\ lastTr.dispatched /\ ~lastTr.docChanged /\ ~lastTr.selection
    /\ decorations # <<>>
    /\ decorations # Decorate(text, selection, settings)

\* the error flag of every overlay of a set, by position
ErrorFlags(q) == [j \in 1..Len(q) |-> [from |-> q[j].from, isError |-> q[j].isError]]

\* C28: when the settings toggle changes enableIntegrityCheck and refreshes
\* the live preview of an editor whose overlays were up to date, the overlays
\* carry the error flags that a recompute under the new flag value gives.
C28_ToggleReachesOverlays ==
    [][(/\ settings'.enableIntegrityCheck # settings.enableIntegrityCheck
        /\ decorations = Decorate(text, selection, settings))
          => ErrorFlags(decorations')
                 = ErrorFlags(Decorate(text', selection', settings'))]_vars

----------------------------------------------------------------------------
(* Properties of the completion provider, under SpecSuggest *)

\* C11: the provider triggers only on a prefix that ends with @, an optional
\* partial kind: and partial id characters, and only if the character before
\* that @ is whitespace or the @ starts the line -- never after [ or after
\* any other character.
C11_TriggerNeedsBlankBefore ==
    suggest.open =>
        /\ TriggerMatchAt(Slice(text, 0, suggest.end), suggest.start)
        /\ \/ suggest.start = LineFrom(text, LineAt(text, suggest.start))
           \/ IsSpace(At(text, suggest.start - 1))

----------------------------------------------------------------------------
(* Properties of getSuggestions, under SpecQuery *)

\* s without the parenthesis character it starts with, if it starts with one
StripLeadingParen(s) == IF s # <<>> /\ s[1] \in OpenParens THEN Tail(s) ELSE s

\* needle occurs in hay
Occurs(needle, hay) ==
    \E k \in 1..(Len(hay) - Len(needle) + 1) :
        \A i \in 1..Len(needle) : hay[k + i - 1] = needle[i]

\* C12 as stated: the candidates are exactly the definitions of a fresh scan
\* whose string "kind:id caption" contains, case-insensitively, the query
\* without its leading parenthesis character.
C12_KindIdCaptionContains ==
    suggest.asked =>
        LET Wanted(d) ==
                Occurs(toLowerCase(StripLeadingParen(suggest.query)),
                       toLowerCase(TypeChars(d.type) \o <<":">> \o d.id \o <<" ">> \o d.caption))
        IN suggest.items = SelectSeq(Index, Wanted)

\* C12, amended: the candidates are exactly the definitions of a fresh scan
\* whose string "@kind:id caption", lower-cased, contains the lower-cased
\* query from which the first "(" (wherever it stands, ASCII only) is removed.
C12_AtKindIdCaptionContains ==
    suggest.asked =>
        LET q == toLowerCase(suggest.query)
            parens == {i \in 1..Len(q) : q[i] = "("}
            needle == IF parens = {} THEN q
                      ELSE SubSeq(q, 1, Least(parens) - 1) \o SubSeq(q, Least(parens) + 1, Len(q))
            Wanted(d) ==
                Occurs(needle,
                       toLowerCase(<<"@">> \o TypeChars(d.type) \o <<":">> \o d.id
                                   \o <<" ">> \o d.caption))
        IN suggest.items = SelectSeq(Index, Wanted)

\* the query "(APP" found the definition fig:apple
C12_Witness ==
    /\ suggest.asked
    /\ suggest.query = <<"(", "A", "P", "P">>
    /\ \E j \in 1..Len(suggest.items) : suggest.items[j].id = <<"a", "p", "p", "l", "e">>

----------------------------------------------------------------------------
(* Properties of the commit, under SpecSuggest *)

\* C13: a commit inserts @kind:id when the auto-bracket flag is off, and
\* (@kind:id) when it is on -- unless the text before the trigger start ends
\* with an open parenthesis, ASCII or full-width: then no parentheses are
\* added, so that no "((@" arises.
C13_NoDoubleParenthesis ==
    suggest.committed =>
        LET ins == suggest.insertText
            hasOpenParen == suggest.before # <<>>
                            /\ suggest.before[Len(suggest.before)] \in OpenParens
            wrapped == ins[1] = "(" /\ ins[Len(ins)] = ")"
            core == IF wrapped THEN SubSeq(ins, 2, Len(ins) - 1) ELSE ins
        IN /\ wrapped = (suggest.useBrackets /\ ~hasOpenParen)
           /\ core[1] = "@" /\ KindAt(core, 1) # NULL /\ At(core, 4) = ":"
           /\ Len(core) > 5 /\ IdCharsToEnd(core, 5)

----------------------------------------------------------------------------
(* Further properties of the scanner, under SpecScan *)

\* the ids of the markers the scan recognises: the first match of the
\* definition pattern on each line
MarkerIds(s) ==
    {DefExec(LineText(s, i), 0).id :
        i \in {l \in 1..LineCount(s) : DefExec(LineText(s, l), 0).ok}}

\* the ids of the citation tokens of the document
CitedIds(s) ==
    UNION {{m.id : m \in SeqToSet(BareRefMatches(LineText(s, i), 0))} : i \in 1..LineCount(s)}

\* C15: the ids of the definition map are exactly the ids of the recognised
\* definition markers; an id that only citations carry is in referencedIds
\* and not in the definition map; only cited ids have a usage count.
C15_NoPhantomDefinitions ==
    scanResult.called =>
        /\ {d.id : d \in SeqToSet(scanResult.defs)} = MarkerIds(text)
        /\ scanResult.refIds = CitedIds(text)
        /\ \A id \in CitedIds(text) \ MarkerIds(text) :
              /\ id \in scanResult.refIds
              /\ ~MapHas(scanResult.defs, id)
        /\ \A d \in SeqToSet(scanResult.defs) : d.usageCount > 0 => d.id \in CitedIds(text)

\* a scanned document cites an id it nowhere defines, next to one it defines
C15_Witness ==
    /\ scanResult.called
    /\ \E id \in scanResult.refIds : ~MapHas(scanResult.defs, id)
    /\ \E d \in SeqToSet(scanResult.defs) : d.usageCount > 0

\* C16: the entries of every listing of the navigator stand in ascending
\* order of the line each of them displays and jumps to -- for every
\* document, ids defined more than once included.
C16_NavigatorInDocumentOrder ==
    navItems.rendered =>
        \A i, j \in 1..Len(navItems.items) :
            i < j => navItems.items[i].line <= navItems.items[j].line

\* the lines (1-based) of s whose marker defines id
DefLines(s, id) ==
    {i \in 1..LineCount(s) : DefExec(LineText(s, i), 0).ok /\ DefExec(LineText(s, i), 0).id = id}

\* the last of them
LastDefLine(s, id) == CHOOSE i \in DefLines(s, id) : \A x \in DefLines(s, id) : x <= i

\* how many lines of s up to line i carry a marker of the kind
KindCount(s, kind, i) ==
    Cardinality({l \in 1..i : DefExec(LineText(s, l), 0).ok /\ DefExec(LineText(s, l), 0).type = kind})

\* the Definition expected for the marker m of line i of s
LastWins(s, cfg, i, m, d) ==
    /\ d.type = m.type
    /\ d.suffix = m.suffix
    /\ d.line = i - 1
    /\ d.number = ToStr(KindCount(s, m.type, i))
    /\ d.caption = (IF m.type = "fig" THEN ImgCaption(LineText(s, i)) ELSE TblCaption(LineText(s, i)))
    /\ d.fullLabel = (IF m.type = "fig" THEN getFigurePrefix(cfg) ELSE getTablePrefix(cfg))
                         \o ToStr(KindCount(s, m.type, i)) \o m.suffix

\* C20: for an id defined on several lines the Index holds exactly one
\* Definition, and its kind, number, suffix, caption, label and line are
\* those of the last defining line, the number counting every defining line
\* of that kind up to it.
C20_LastOccurrenceWins ==
    scanResult.called =>
        \A id \in MarkerIds(text) :
            /\ Cardinality({j \in 1..Len(scanResult.defs) : scanResult.defs[j].id = id}) = 1
            /\ LastWins(text, settings, LastDefLine(text, id),
                        DefExec(LineText(text, LastDefLine(text, id)), 0),
                        MapGet(scanResult.defs, id))

\* a scanned document defines an id as a figure on one line and as a table
\* on a later one, with a marker of that kind on a line in between or before
C20_Witness ==
    /\ scanResult.called
    /\ \E id \in MarkerIds(text) :
          /\ Cardinality(DefLines(text, id)) >= 2
          /\ \E i \in DefLines(text, id) :
                DefExec(LineText(text, i), 0).type # MapGet(scanResult.defs, id).type
          /\ MapGet(scanResult.defs, id).number # <<"1">>

----------------------------------------------------------------------------
(* Properties of repeated scans, under SpecRescan *)

----------------------------------------------------------------------------
(* Properties of the editor session, under Spec *)

\* C19: whenever the last transaction changed the document or the
\* selection, the overlay set the field holds is the one a from-scratch
\* computation on the current text, selection and configuration gives,
\* whatever documents, selections and overlay sets came before.
C19_RebuiltNotPatched ==
    (lastTr.dispatched /\ (lastTr.docChanged \/ lastTr.selection))
        => decorations = Decorate(text, selection, settings)

\* after an edit, a selection change took an overlay off the display and the
\* next one put it back
C19_Witness ==
    /\ lastTr.dispatched /\ ~lastTr.docChanged /\ lastTr.selection
    /\ restored # {}
    /\ scanResult.called
    /\ \E h \in restored : h.w \in SeqToSet(decorations)

----------------------------------------------------------------------------
(* Properties of clicks, under SpecJump *)

\* C17: activating a reference overlay moves the cursor to its jump target
\* only if enableClickToJump is true at that moment; while the flag is off
\* no activation of a displayed overlay moves the cursor.
C17_JumpOnlyWhileEnabled ==
    (jump.issued /\ jump.by = "overlay") => jump.enabled

\* a jump asked for by an overlay names a line of the document clicked in
OverlayJumpInRange ==
    (jump.issued /\ jump.by = "overlay") => (jump.line < jump.lines /\ jump.outcome = "moved")

\* a jump asked for by the navigator names a line of the document clicked in
NavigatorJumpInRange ==
    (jump.issued /\ jump.by = "navigator") => jump.line < jump.lines

----------------------------------------------------------------------------
(* Properties of markers and their overlays, under SpecMarker *)

\* the end of the id of the marker that starts at offset k of s
IdEnd(s, k) == SkipIdChars(s, k + 6)

\* the offsets of the line l at which "{#kind:id", blanks, further text of
\* the line and a closing brace stand: the markers with attributes
AttrMarkerStarts(l) ==
    {k \in 0..(Len(l) - 1) :
        /\ IsAt(l, k, <<"{", "#">>) /\ KindAt(l, k + 2) # NULL /\ At(l, k + 5) = ":"
        /\ IdEnd(l, k) > k + 6
        /\ IsSpace(At(l, IdEnd(l, k)))
        /\ LazyDotsTo(l, IdEnd(l, k), {"}"}) # -1}

\* whether the line l starts its markers with one that carries attributes
HasAttributes(l) ==
    /\ AttrMarkerStarts(l) # {}
    /\ \A k \in 0..(Least(AttrMarkerStarts(l)) - 1) : ~IsAt(l, k, <<"{", "#">>)

\* that marker: where it starts, where its id ends, its closing brace, its end
AttrMarker(l) ==
    LET k == Least(AttrMarkerStarts(l))
        brace == LazyDotsTo(l, IdEnd(l, k), {"}"})
    IN [index |-> k, idEnd |-> IdEnd(l, k), brace |-> brace,
        end |-> IF IsLetter(At(l, brace + 1)) THEN brace + 2 ELSE brace + 1,
        type |-> KindAt(l, k + 2), id |-> Slice(l, k + 6, IdEnd(l, k))]

\* the line l with the attributes of that marker taken out
PlainLine(l) ==
    IF HasAttributes(l)
    THEN Slice(l, 0, AttrMarker(l).idEnd) \o Slice(l, AttrMarker(l).brace, Len(l))
    ELSE l

\* the document s with the attributes taken out on every line
RECURSIVE PlainFrom(_, _)
PlainFrom(s, i) ==
    IF i > LineCount(s) THEN <<>>
    ELSE (IF i = 1 THEN <<>> ELSE <<"\n">>) \o PlainLine(LineText(s, i)) \o PlainFrom(s, i + 1)
Plain(s) == PlainFrom(s, 1)

\* the definition overlays of a recompute no selection is near
DefOverlaysOf(s, cfg) == SelectSeq(Decorate(s, <<>>, cfg), LAMBDA w : w.isDef)

\* C21: a marker with attributes is recognised by the scanner and by the
\* decoration engine with the id, kind, number and label of the same marker
\* without them, and its definition overlay ends where the marker (braces,
\* attributes and suffix letter) ends.
C21_AttributesIgnored ==
    lastTr.dispatched =>
        /\ Len(scanDocument(Plain(text), settings).defs) = Len(scanResult.defs)
        /\ \A j \in 1..Len(scanResult.defs) :
              LET d == scanResult.defs[j]
                  e == scanDocument(Plain(text), settings).defs[j]
              IN /\ d.id = e.id /\ d.type = e.type /\ d.number = e.number
                 /\ d.fullLabel = e.fullLabel /\ d.suffix = e.suffix /\ d.line = e.line
        /\ Len(DefOverlaysOf(text, settings)) = Len(DefOverlaysOf(Plain(text), settings))
        /\ \A j \in 1..Len(DefOverlaysOf(text, settings)) :
              /\ DefOverlaysOf(text, settings)[j].displayText
                     = DefOverlaysOf(Plain(text), settings)[j].displayText
              /\ DefOverlaysOf(text, settings)[j].type = DefOverlaysOf(Plain(text), settings)[j].type
        /\ \A i \in 1..LineCount(text) :
              (/\ HasAttributes(LineText(text, i))
               /\ \A r \in 1..Len(selection) :
                     \/ selection[r].to < LineFrom(text, i)
                     \/ selection[r].from > LineTo(text, i)
               /\ \A k \in 1..Len(DefMatches(text, 0)) :
                     LineAt(text, DefMatches(text, 0)[k].index) = LineAt(text, DefMatches(text, 0)[k].end))
                  => LET m == AttrMarker(LineText(text, i))
                         from == LineFrom(text, i)
                     IN \E j \in 1..Len(decorations) :
                           /\ decorations[j].isDef
                           /\ decorations[j].from <= from + m.index
                           /\ decorations[j].to = from + m.end
                           /\ decorations[j].type = m.type
                           /\ MapHas(scanResult.defs, m.id)
                           /\ decorations[j].displayText
                                  = MapGet(scanResult.defs, m.id).fullLabel \o <<" ">>
                                       \o MapGet(scanResult.defs, m.id).caption

\* the overlay of a marker with attributes is on display
C21_Witness ==
    /\ lastTr.dispatched
    /\ \E i \in 1..LineCount(text) :
          /\ HasAttributes(LineText(text, i))
          /\ \E j \in 1..Len(decorations) :
                /\ decorations[j].isDef
                /\ decorations[j].to = LineFrom(text, i) + AttrMarker(LineText(text, i)).end
    /\ Plain(text) # text

TableSpanStart(s, k) ==
    LET lineFrom == LineFrom(s, LineAt(s, k))
        colons == {p \in lineFrom..(k - 1) : At(s, p) = ":"}
        solids == {p \in lineFrom..(k - 1) : ~IsSpace(At(s, p))}
    IN IF colons # {} THEN Least(colons)
       ELSE IF solids # {} THEN Least(solids)
       ELSE k

\* C24: the overlay of a table marker ends at the end of the marker (suffix
\* letter included) and starts at the colon before it on its line, else at
\* the first non-whitespace character of the line, else at the marker, never
\* before the start of that line; the overlay of a figure marker is exactly
\* the marker.
C24_TableSpan ==
    lastTr.dispatched =>
        \A k \in 1..Len(DefMatches(text, 0)) :
            LET m == DefMatches(text, 0)[k]
                start == IF m.type = "tbl" THEN TableSpanStart(text, m.index) ELSE m.index
            IN (MapHas(scanResult.defs, m.id) /\ ~isCursorInside(selection, start, m.end)) =>
                  /\ start >= LineFrom(text, LineAt(text, m.index))
                  /\ start <= m.index
                  /\ Cardinality({j \in 1..Len(decorations) :
                                     decorations[j].isDef /\ decorations[j].to = m.end}) = 1
                  /\ \A j \in 1..Len(decorations) :
                        (decorations[j].isDef /\ decorations[j].to = m.end)
                            => decorations[j].from = start

\* the overlay of " x {#tbl:d}b" is on display: from the x to behind the b
C24_Witness ==
    /\ lastTr.dispatched
    /\ IsAt(text, 0, <<" ", "x", " ", "{", "#", "t", "b", "l", ":", "d", "}", "b">>)
    /\ \E j \in 1..Len(decorations) :
          /\ decorations[j].isDef /\ decorations[j].type = "tbl"
          /\ decorations[j].from = 1 /\ decorations[j].to = 12

\* the prefix of a kind under the settings of the state
PrefixOf(kind) == IF kind = "fig" THEN getFigurePrefix(settings) ELSE getTablePrefix(settings)

\* C26: the label in a resolved reference overlay and in a definition
\* overlay starts with the prefix of the kind written in that citation or
\* marker, and a definition has a usage count only if a citation of its own
\* kind and id stands in the document.
C26_KindRespected ==
    lastTr.dispatched =>
        /\ \A j \in 1..Len(decorations) :
              /\ (~decorations[j].isDef /\ decorations[j].targetLine # NoLine)
                     => IsAt(decorations[j].displayText, 1, PrefixOf(decorations[j].type))
              /\ decorations[j].isDef
                     => IsAt(decorations[j].displayText, 0, PrefixOf(decorations[j].type))
        /\ \A d \in SeqToSet(scanResult.defs) :
              d.usageCount > 0 =>
                  \E i \in 1..LineCount(text) :
                      \E c \in SeqToSet(BareRefMatches(LineText(text, i), 0)) :
                          c.id = d.id /\ c.type = d.type

\* C26 for the reference overlays alone
C26_ReferenceLabelOfKind ==
    lastTr.dispatched =>
        \A j \in 1..Len(decorations) :
            (~decorations[j].isDef /\ decorations[j].targetLine # NoLine)
                => IsAt(decorations[j].displayText, 1, PrefixOf(decorations[j].type))

\* C26 for the usage counts alone
C26_UsageOfKind ==
    lastTr.dispatched =>
        \A d \in SeqToSet(scanResult.defs) :
            d.usageCount > 0 =>
                \E i \in 1..LineCount(text) :
                    \E c \in SeqToSet(BareRefMatches(LineText(text, i), 0)) :
                        c.id = d.id /\ c.type = d.type

\* C27: every definition marker that the Decoration Engine's whole-text
\* pattern finds has its id in the Index of the scan of the same document.
C27_EngineMarkersIndexed ==
    lastTr.dispatched =>
        \A m \in SeqToSet(DefMatches(text, 0)) :
            \E d \in SeqToSet(scanResult.defs) : d.id = m.id

\* C27 for documents in which no whole-text match runs over a line break
C27_SameLineMarkersIndexed ==
    lastTr.dispatched =>
        \A m \in SeqToSet(DefMatches(text, 0)) :
            LineAt(text, m.index) = LineAt(text, m.end - 1)
                => \E d \in SeqToSet(scanResult.defs) : d.id = m.id

----------------------------------------------------------------------------
(* Further properties of the completion provider, under SpecSuggest *)

\* C23: the provider changes the document only at a commit and only inside
\* the triggered range.  A step in which onTrigger and getSuggestions run
\* leaves the text and the configuration as they are and the cursor where
\* the host put it; a mismatch leaves no context and no candidates; a commit
\* replaces exactly the text from the @ of the trigger to the cursor recorded
\* with it, every character before and behind staying as it was.
C23_ProviderFrame ==
    [][/\ (suggest' # suggest /\ ~suggest'.committed) =>
              /\ text' = text
              /\ settings' = settings
              /\ suggest'.open => (suggest'.end = selection'[1].from /\ At(text', suggest'.start) = "@")
              /\ ~suggest'.open => (suggest'.items = <<>> /\ ~suggest'.asked)
       /\ text' # text =>
              /\ suggest.open /\ suggest'.committed /\ ~suggest.committed
              /\ settings' = settings
              /\ At(text, suggest.start) = "@"
              /\ suggest.end = selection[1].from
              /\ Slice(text', 0, suggest.start) = Slice(text, 0, suggest.start)
              /\ Slice(text', suggest.start, suggest.start + Len(suggest'.insertText))
                     = suggest'.insertText
              /\ Slice(text', suggest.start + Len(suggest'.insertText), Len(text'))
                     = Slice(text, suggest.end, Len(text))
       /\ settings' # settings => (text' = text /\ suggest' = suggest)]_vars

\* a commit in the middle of a document: text stands before the @ and behind
\* the cursor
C23_Witness ==
    /\ suggest.committed
    /\ suggest.start > 0
    /\ suggest.end > suggest.start + 1
    /\ Len(text) > suggest.start + Len(suggest.insertText)

\* p is a non-empty prefix of id
IsPrefixOf(p, id) == Len(p) > 0 /\ Len(p) <= Len(id) /\ Slice(id, 0, Len(p)) = p

\* the query q is @<p> or @<kind of d>:<p>, with p a non-empty prefix of d's id
AsksFor(q, d) ==
    /\ At(q, 0) = "@"
    /\ \/ IsPrefixOf(Slice(q, 1, Len(q)), d.id)
       \/ /\ Len(q) > 5
          /\ IsAt(q, 1, TypeChars(d.type) \o <<":">>)
          /\ IsPrefixOf(Slice(q, 5, Len(q)), d.id)

\* C29: when onTrigger fires for typed text @<p>, or @fig:<p> or @tbl:<p> of
\* the matching kind, where <p> is a non-empty prefix of the id of a
\* definition in the document, getSuggestions returns that definition for the
\* query onTrigger hands over.
C29_TriggerFindsDefinition ==
    (suggest.open /\ suggest.asked) =>
        \A d \in SeqToSet(scanDocument(text, settings).defs) :
            AsksFor(suggest.query, d) => d \in SeqToSet(suggest.items)

\* C29 for the typed text @fig:<p> and @tbl:<p> alone
C29_KindQualifiedFindsDefinition ==
    (suggest.open /\ suggest.asked) =>
        \A d \in SeqToSet(scanDocument(text, settings).defs) :
            (/\ Len(suggest.query) > 5
             /\ IsAt(suggest.query, 0, <<"@">> \o TypeChars(d.type) \o <<":">>)
             /\ IsPrefixOf(Slice(suggest.query, 5, Len(suggest.query)), d.id))
                => d \in SeqToSet(suggest.items)

\* a kind-qualified prefix of a definition's id has been typed
C29_KindQualifiedTyped ==
    /\ suggest.open /\ suggest.asked
    /\ \E d \in SeqToSet(scanDocument(text, settings).defs) :
          /\ Len(suggest.query) > 5
          /\ IsAt(suggest.query, 0, <<"@">> \o TypeChars(d.type) \o <<":">>)
          /\ IsPrefixOf(Slice(suggest.query, 5, Len(suggest.query)), d.id)

\* a suggestion was committed with auto-bracket on at a trigger that no open
\* parenthesis precedes, and the cursor has since been moved off the inserted
\* text
CommittedAndLeft ==
    /\ suggest.committed
    /\ suggest.useBrackets
    /\ ~(suggest.before # <<>> /\ suggest.before[Len(suggest.before)] = "(")
    /\ lastTr = Tr(FALSE, TRUE)
    /\ \A j \in 1..Len(selection) :
          \/ selection[j].to < suggest.at
          \/ selection[j].from > suggest.at + Len(suggest.insertText)

\* the text a commit with auto-bracket inserts for the definition d
Bracketed(d) == <<"(", "@">> \o TypeChars(d.type) \o <<":">> \o d.id \o <<")">>

----------------------------------------------------------------------------
(* Properties of the debounced navigator, under SpecDebounce *)

\* C25: an editor-change that arrives less than the debounce interval after
\* the one before finds no rescan done in between; an edit itself rescans
\* nothing; a rescan happens only once the interval has passed since the
\* last event, and once per burst; and once the edits have stopped the
\* listing eventually is, and stays, the projection of a fresh scan of the
\* current document.
C25_DebouncedConvergence ==
    /\ [][/\ timer'.edits # timer.edits =>
                 /\ navItems' = navItems
                 /\ (timer.edits > 0 /\ timer.since < DebounceTicks) => timer.fired = 0
          /\ timer'.fired > timer.fired =>
                 /\ timer.since >= DebounceTicks
                 /\ timer'.fired = 1
                 /\ navItems'.items = updateView(text', settings')
          /\ navItems' # navItems => timer'.fired > timer.fired]_vars
    /\ [](timer.fired <= 1)
    /\ []((timer.edits > 0 /\ ~timer.pending) => timer.fired = 1)
    /\ <>[](timer.edits > 0 => navItems.items = updateView(text, settings))

\* a burst of three edits was followed by its single rescan
C25_Witness ==
    /\ ~timer.pending
    /\ timer.burst = 3
    /\ timer.fired = 1
    /\ navItems.items # <<>>
    /\ navItems.items = updateView(text, settings)

====
